---------------------------- MODULE Spec2Model ----------------------------
(***************************************************************************)
(* Model of Scintilla's ContractionState                                   *)
(* (src/openlib/scintilla/ContractionState.cxx): the mapping between       *)
(* document lines and display rows under folding and wrapping.             *)
(*                                                                         *)
(* The object's fields are the variables.  A std::unique_ptr is a sequence *)
(* of length 0 (nullptr) or 1 (the owned object).  Every method is an      *)
(* operator from the object's state (a record of the fields) and the       *)
(* arguments to the state after the call and the value returned; one       *)
(* action per public method applies it to the current state.              *)
(*                                                                         *)
(* RunStyles, SparseVector and Partitioning are collaborators whose source *)
(* is not part of the modelled file: they are modelled by their contracts  *)
(* as plain sequences with one element per line (RunStyles, SparseVector)  *)
(* or per partition boundary (Partitioning).                               *)
(***************************************************************************)
EXTENDS Integers, Sequences, FiniteSets, TLC

\* Bounds of the model.
MaxLines == 3
MaxCount == 2

\* const char * values: the null pointer, the empty string, a non-empty string.
NullText == "nullptr"
Texts == {NullText, "", "a"}

\* int height arguments given to SetHeight: no row, the default of one row,
\* and a wrapped line of two rows.
HeightValues == {0, 1, 2}

VARIABLES
    visible,            \* unique_ptr<RunStyles<Line, char>>
    expanded,           \* unique_ptr<RunStyles<Line, char>>
    heights,            \* unique_ptr<RunStyles<Line, int>>
    foldDisplayTexts,   \* unique_ptr<SparseVector<UniqueString>>
    displayLines,       \* unique_ptr<Partitioning<Line>>
    linesInDocument,    \* Sci::Line
    op,                 \* the public method called last
    ret,                \* the value it returned ("void" for a void method)
    returnedAt,         \* the source line of the return it left by
    undefinedBehaviour  \* the last call indexed a collaborator out of its range

vars == <<visible, expanded, heights, foldDisplayTexts, displayLines,
          linesInDocument, op, ret, returnedAt, undefinedBehaviour>>

-----------------------------------------------------------------------------
(* Sequence helpers: positions are 0-based as in the source.               *)

InsertAt(s, i, x) == SubSeq(s, 1, i) \o <<x>> \o SubSeq(s, i + 1, Len(s))

RemoveAt(s, i) == SubSeq(s, 1, i) \o SubSeq(s, i + 2, Len(s))

SetAt(s, i, x) == [s EXCEPT ![i + 1] = x]

-----------------------------------------------------------------------------
(* unique_ptr                                                              *)

nullptr == << >>

make_unique(obj) == <<obj>>

-----------------------------------------------------------------------------
(* Partitioning<T>: the cumulative positions of the partition boundaries,  *)
(* body[0] = 0 first and the end of the last partition last.               *)

\* Partitioning(growSize): one empty partition, boundaries 0 and 0.
NewPartitioning == <<0, 0>>

Partitions(body) == Len(body) - 1

InsertPartition(body, partition, pos) == InsertAt(body, partition, pos)

RemovePartition(body, partition) == RemoveAt(body, partition)

\* Moves every boundary after partitionInsert by delta.
InsertText(body, partitionInsert, delta) ==
    [i \in 1..Len(body) |->
        IF i - 1 > partitionInsert THEN body[i] + delta ELSE body[i]]

PositionFromPartition(body, partition) ==
    IF partition < 0 \/ partition >= Len(body) THEN 0 ELSE body[partition + 1]

\* The binary search for the last partition starting at or before pos.
RECURSIVE PartitionSearch(_, _, _, _)
PartitionSearch(body, pos, lower, upper) ==
    LET middle == (upper + lower + 1) \div 2
        posMiddle == body[middle + 1]
        newUpper == IF pos < posMiddle THEN middle - 1 ELSE upper
        newLower == IF pos < posMiddle THEN lower ELSE middle
    IN  IF newLower < newUpper
        THEN PartitionSearch(body, pos, newLower, newUpper)
        ELSE newLower

PartitionFromPosition(body, pos) ==
    IF Len(body) <= 1 THEN 0
    ELSE IF pos >= PositionFromPartition(body, Partitions(body))
    THEN Partitions(body) - 1
    ELSE PartitionSearch(body, pos, 0, Partitions(body))

-----------------------------------------------------------------------------
(* RunStyles<DISTANCE, STYLE> and SparseVector<T>: one value per position. *)

NewRunStyles == << >>

Length(rs) == Len(rs)

ValueAt(rs, position) == rs[position + 1]

SetValueAt(rs, position, value) == SetAt(rs, position, value)

\* The space inserted is given its value by the SetValueAt that follows.
InsertSpace(rs, position, filler) == InsertAt(rs, position, filler)

DeleteRange(rs, position) == RemoveAt(rs, position)

AllSameAs(rs, value) == \A i \in 1..Len(rs) : rs[i] = value

\* The end of the run of equal values that holds position: the first
\* position after it with another value, or Length().
RECURSIVE EndRun(_, _)
EndRun(rs, position) ==
    IF position + 1 < Len(rs) /\ rs[position + 2] = rs[position + 1]
    THEN EndRun(rs, position + 1)
    ELSE position + 1

-----------------------------------------------------------------------------
(* class ContractionState: cs is the record of the object's fields.        *)

This ==
    [visible |-> visible, expanded |-> expanded, heights |-> heights,
     foldDisplayTexts |-> foldDisplayTexts, displayLines |-> displayLines,
     linesInDocument |-> linesInDocument]

\* ContractionState() noexcept : linesInDocument(1)
ContractionState ==
    [visible |-> nullptr, expanded |-> nullptr, heights |-> nullptr,
     foldDisplayTexts |-> nullptr, displayLines |-> nullptr,
     linesInDocument |-> 1]

OneToOne(cs) == cs.visible = nullptr

LinesInDoc(cs) ==
    IF OneToOne(cs)
    THEN cs.linesInDocument
    ELSE Partitions(cs.displayLines[1]) - 1

LinesDisplayed(cs) ==
    IF OneToOne(cs)
    THEN cs.linesInDocument
    ELSE PositionFromPartition(cs.displayLines[1], LinesInDoc(cs))

\* DisplayFromDoc without the clamp of lineDoc to Partitions().
DisplayFromDocUnclamped(cs, lineDoc) ==
    IF cs.visible = nullptr
    THEN IF lineDoc <= cs.linesInDocument THEN lineDoc ELSE cs.linesInDocument
    ELSE PositionFromPartition(cs.displayLines[1], lineDoc)

DisplayFromDoc(cs, lineDoc) ==
    IF OneToOne(cs)
    THEN IF lineDoc <= cs.linesInDocument THEN lineDoc ELSE cs.linesInDocument
    ELSE LET clamped == IF lineDoc > Partitions(cs.displayLines[1])
                        THEN Partitions(cs.displayLines[1])
                        ELSE lineDoc
         IN  PositionFromPartition(cs.displayLines[1], clamped)

GetVisible(cs, lineDoc) ==
    IF OneToOne(cs)
    THEN TRUE
    ELSE IF lineDoc >= Length(cs.visible[1])
    THEN TRUE
    ELSE ValueAt(cs.visible[1], lineDoc) = 1

GetHeight(cs, lineDoc) ==
    IF OneToOne(cs) THEN 1 ELSE ValueAt(cs.heights[1], lineDoc)

GetExpanded(cs, lineDoc) ==
    IF OneToOne(cs) THEN TRUE ELSE ValueAt(cs.expanded[1], lineDoc) = 1

\* Dereferences foldDisplayTexts: defined in projected mode only.
GetFoldDisplayText(cs, lineDoc) == ValueAt(cs.foldDisplayTexts[1], lineDoc)

DisplayLastFromDoc(cs, lineDoc) ==
    DisplayFromDoc(cs, lineDoc) + GetHeight(cs, lineDoc) - 1

\* DocFromDisplay returning the line count, as LinesInDoc, in trivial mode.
DocFromDisplayLineCount(cs, lineDisplay) ==
    IF OneToOne(cs)
    THEN cs.linesInDocument
    ELSE IF lineDisplay <= 0
    THEN 0
    ELSE IF lineDisplay > LinesDisplayed(cs)
    THEN PartitionFromPosition(cs.displayLines[1], LinesDisplayed(cs))
    ELSE PartitionFromPosition(cs.displayLines[1], lineDisplay)

DocFromDisplay(cs, lineDisplay) ==
    IF OneToOne(cs)
    THEN lineDisplay
    ELSE IF lineDisplay <= 0
    THEN 0
    ELSE IF lineDisplay > LinesDisplayed(cs)
    THEN PartitionFromPosition(cs.displayLines[1], LinesDisplayed(cs))
    ELSE PartitionFromPosition(cs.displayLines[1], lineDisplay)

\* HiddenLines comparing the visibility flags with 0 instead of 1.
HiddenLinesAgainstZero(cs) ==
    IF OneToOne(cs) THEN FALSE ELSE ~AllSameAs(cs.visible[1], 0)

HiddenLines(cs) ==
    IF OneToOne(cs) THEN FALSE ELSE ~AllSameAs(cs.visible[1], 1)

\* InsertLine adding the partition of the new line without its row.
InsertLineWithoutRow(cs, lineDoc) ==
    IF OneToOne(cs)
    THEN [cs EXCEPT !.linesInDocument = @ + 1]
    ELSE LET attrs ==
                 [cs EXCEPT
                     !.visible = <<SetValueAt(InsertSpace(@[1], lineDoc, 0), lineDoc, 1)>>,
                     !.expanded = <<SetValueAt(InsertSpace(@[1], lineDoc, 0), lineDoc, 1)>>,
                     !.heights = <<SetValueAt(InsertSpace(@[1], lineDoc, 0), lineDoc, 1)>>,
                     !.foldDisplayTexts =
                         <<SetValueAt(InsertSpace(@[1], lineDoc, NullText), lineDoc, NullText)>>]
             lineDisplay == DisplayFromDoc(attrs, lineDoc)
         IN  [attrs EXCEPT
                 !.displayLines = <<InsertPartition(@[1], lineDoc, lineDisplay)>>]

\* InsertLine leaving the visibility flag of the new line as InsertSpace made it.
InsertLineLeavesFlagUnset(cs, lineDoc) ==
    IF OneToOne(cs)
    THEN [cs EXCEPT !.linesInDocument = @ + 1]
    ELSE LET attrs ==
                 [cs EXCEPT
                     !.visible = <<InsertSpace(@[1], lineDoc, 0)>>,
                     !.expanded = <<SetValueAt(InsertSpace(@[1], lineDoc, 0), lineDoc, 1)>>,
                     !.heights = <<SetValueAt(InsertSpace(@[1], lineDoc, 0), lineDoc, 1)>>,
                     !.foldDisplayTexts =
                         <<SetValueAt(InsertSpace(@[1], lineDoc, NullText), lineDoc, NullText)>>]
             lineDisplay == DisplayFromDoc(attrs, lineDoc)
         IN  [attrs EXCEPT
                 !.displayLines =
                     <<InsertText(InsertPartition(@[1], lineDoc, lineDisplay), lineDoc, 1)>>]

InsertLine(cs, lineDoc) ==
    IF OneToOne(cs)
    THEN [cs EXCEPT !.linesInDocument = @ + 1]
    ELSE LET attrs ==
                 [cs EXCEPT
                     !.visible = <<SetValueAt(InsertSpace(@[1], lineDoc, 0), lineDoc, 1)>>,
                     !.expanded = <<SetValueAt(InsertSpace(@[1], lineDoc, 0), lineDoc, 1)>>,
                     !.heights = <<SetValueAt(InsertSpace(@[1], lineDoc, 0), lineDoc, 1)>>,
                     !.foldDisplayTexts =
                         <<SetValueAt(InsertSpace(@[1], lineDoc, NullText), lineDoc, NullText)>>]
             lineDisplay == DisplayFromDoc(attrs, lineDoc)
         IN  [attrs EXCEPT
                 !.displayLines =
                     <<InsertText(InsertPartition(@[1], lineDoc, lineDisplay), lineDoc, 1)>>]

\* DeleteLine taking the height of the line off the display without asking
\* whether the line is visible.
DeleteLineAlwaysCollapses(cs, lineDoc) ==
    IF OneToOne(cs)
    THEN [cs EXCEPT !.linesInDocument = @ - 1]
    ELSE LET collapsed ==
                 InsertText(cs.displayLines[1], lineDoc, -ValueAt(cs.heights[1], lineDoc))
         IN  [cs EXCEPT
                 !.displayLines = <<RemovePartition(collapsed, lineDoc)>>,
                 !.visible = <<DeleteRange(@[1], lineDoc)>>,
                 !.expanded = <<DeleteRange(@[1], lineDoc)>>,
                 !.heights = <<DeleteRange(@[1], lineDoc)>>,
                 !.foldDisplayTexts = <<DeleteRange(@[1], lineDoc)>>]

DeleteLine(cs, lineDoc) ==
    IF OneToOne(cs)
    THEN [cs EXCEPT !.linesInDocument = @ - 1]
    ELSE LET collapsed ==
                 IF GetVisible(cs, lineDoc)
                 THEN InsertText(cs.displayLines[1], lineDoc, -ValueAt(cs.heights[1], lineDoc))
                 ELSE cs.displayLines[1]
         IN  [cs EXCEPT
                 !.displayLines = <<RemovePartition(collapsed, lineDoc)>>,
                 !.visible = <<DeleteRange(@[1], lineDoc)>>,
                 !.expanded = <<DeleteRange(@[1], lineDoc)>>,
                 !.heights = <<DeleteRange(@[1], lineDoc)>>,
                 !.foldDisplayTexts = <<DeleteRange(@[1], lineDoc)>>]

\* for (int l = 0; l < lineCount; l++) InsertLine(lineDoc + l);
RECURSIVE InsertLinesLoop(_, _, _, _)
InsertLinesLoop(cs, lineDoc, l, lineCount) ==
    IF l < lineCount
    THEN InsertLinesLoop(InsertLine(cs, lineDoc + l), lineDoc, l + 1, lineCount)
    ELSE cs

InsertLines(cs, lineDoc, lineCount) == InsertLinesLoop(cs, lineDoc, 0, lineCount)

\* for (Sci::Line l = 0; l < lineCount; l++) DeleteLine(lineDoc);
RECURSIVE DeleteLinesLoop(_, _, _, _)
DeleteLinesLoop(cs, lineDoc, l, lineCount) ==
    IF l < lineCount
    THEN DeleteLinesLoop(DeleteLine(cs, lineDoc), lineDoc, l + 1, lineCount)
    ELSE cs

DeleteLines(cs, lineDoc, lineCount) == DeleteLinesLoop(cs, lineDoc, 0, lineCount)

\* EnsureData allocating the structures without replaying the lines.
EnsureDataWithoutReplay(cs) ==
    IF OneToOne(cs)
    THEN [cs EXCEPT !.visible = make_unique(NewRunStyles),
                    !.expanded = make_unique(NewRunStyles),
                    !.heights = make_unique(NewRunStyles),
                    !.foldDisplayTexts = make_unique(NewRunStyles),
                    !.displayLines = make_unique(NewPartitioning)]
    ELSE cs

EnsureData(cs) ==
    IF OneToOne(cs)
    THEN InsertLines([cs EXCEPT !.visible = make_unique(NewRunStyles),
                                !.expanded = make_unique(NewRunStyles),
                                !.heights = make_unique(NewRunStyles),
                                !.foldDisplayTexts = make_unique(NewRunStyles),
                                !.displayLines = make_unique(NewPartitioning)],
                     0, cs.linesInDocument)
    ELSE cs

Clear(cs) ==
    [visible |-> nullptr, expanded |-> nullptr, heights |-> nullptr,
     foldDisplayTexts |-> nullptr, displayLines |-> nullptr,
     linesInDocument |-> 1]

\* The loop of SetVisible over [line, lineDocEnd], delta accumulated.
RECURSIVE SetVisibleLoop(_, _, _, _, _)
SetVisibleLoop(cs, line, lineDocEnd, isVisible, delta) ==
    IF line <= lineDocEnd
    THEN IF GetVisible(cs, line) # isVisible
         THEN LET difference == IF isVisible
                                THEN ValueAt(cs.heights[1], line)
                                ELSE -ValueAt(cs.heights[1], line)
                  next == [cs EXCEPT
                              !.visible = <<SetValueAt(@[1], line, IF isVisible THEN 1 ELSE 0)>>,
                              !.displayLines = <<InsertText(@[1], line, difference)>>]
              IN  SetVisibleLoop(next, line + 1, lineDocEnd, isVisible, delta + difference)
         ELSE SetVisibleLoop(cs, line + 1, lineDocEnd, isVisible, delta)
    ELSE [cs |-> cs, delta |-> delta]

\* SetVisible clamping its range to the document instead of rejecting it.
SetVisibleClamped(cs, lineDocStart, lineDocEnd, isVisible) ==
    IF OneToOne(cs) /\ isVisible
    THEN [cs |-> cs, ret |-> FALSE, at |-> 223]
    ELSE LET data == EnsureData(cs)
             first == IF lineDocStart < 0 THEN 0 ELSE lineDocStart
             last == IF lineDocEnd < LinesInDoc(data)
                     THEN lineDocEnd
                     ELSE LinesInDoc(data) - 1
             done == SetVisibleLoop(data, first, last, isVisible, 0)
         IN  [cs |-> done.cs, ret |-> done.delta # 0, at |-> 241]

\* SetVisible without the trivial-mode short cut.
SetVisibleAlwaysEnsuresData(cs, lineDocStart, lineDocEnd, isVisible) ==
    LET data == EnsureData(cs)
    IN  IF lineDocStart <= lineDocEnd /\ lineDocStart >= 0
               /\ lineDocEnd < LinesInDoc(data)
        THEN LET done == SetVisibleLoop(data, lineDocStart, lineDocEnd, isVisible, 0)
             IN  [cs |-> done.cs, ret |-> done.delta # 0, at |-> 241]
        ELSE [cs |-> data, ret |-> FALSE, at |-> 238]

\* Every bool method gives the object after the call (cs), the value
\* returned (ret) and the source line of the return statement taken (at).
\* SetVisible reporting whether a flag changed instead of whether the
\* number of rows did.
SetVisibleReportsFlags(cs, lineDocStart, lineDocEnd, isVisible) ==
    IF OneToOne(cs) /\ isVisible
    THEN [cs |-> cs, ret |-> FALSE, at |-> 223]
    ELSE LET data == EnsureData(cs)
         IN  IF lineDocStart <= lineDocEnd /\ lineDocStart >= 0
                    /\ lineDocEnd < LinesInDoc(data)
             THEN LET done == SetVisibleLoop(data, lineDocStart, lineDocEnd, isVisible, 0)
                  IN  [cs |-> done.cs, ret |-> done.cs.visible # data.visible, at |-> 241]
             ELSE [cs |-> data, ret |-> FALSE, at |-> 238]

SetVisible(cs, lineDocStart, lineDocEnd, isVisible) ==
    IF OneToOne(cs) /\ isVisible
    THEN [cs |-> cs, ret |-> FALSE, at |-> 223]
    ELSE LET data == EnsureData(cs)
         IN  IF lineDocStart <= lineDocEnd /\ lineDocStart >= 0
                    /\ lineDocEnd < LinesInDoc(data)
             THEN LET done == SetVisibleLoop(data, lineDocStart, lineDocEnd, isVisible, 0)
                  IN  [cs |-> done.cs, ret |-> done.delta # 0, at |-> 241]
             ELSE [cs |-> data, ret |-> FALSE, at |-> 238]

GetFoldDisplayTextShown(cs, lineDoc) ==
    ~GetExpanded(cs, lineDoc) /\ GetFoldDisplayText(cs, lineDoc) # NullText

\* SetFoldDisplayText leaving a trivial object alone when asked to store no text.
SetFoldDisplayTextLazy(cs, lineDoc, text) ==
    IF OneToOne(cs) /\ text = NullText
    THEN [cs |-> cs, ret |-> FALSE, at |-> 271]
    ELSE LET data == EnsureData(cs)
             foldText == ValueAt(data.foldDisplayTexts[1], lineDoc)
         IN  IF foldText = NullText \/ text = NullText \/ text # foldText
             THEN [cs |-> [data EXCEPT
                              !.foldDisplayTexts = <<SetValueAt(@[1], lineDoc, text)>>],
                   ret |-> TRUE, at |-> 268]
             ELSE [cs |-> data, ret |-> FALSE, at |-> 271]

SetFoldDisplayText(cs, lineDoc, text) ==
    LET data == EnsureData(cs)
        foldText == ValueAt(data.foldDisplayTexts[1], lineDoc)
    IN  IF foldText = NullText \/ text = NullText \/ text # foldText
        THEN [cs |-> [data EXCEPT !.foldDisplayTexts = <<SetValueAt(@[1], lineDoc, text)>>],
              ret |-> TRUE, at |-> 268]
        ELSE [cs |-> data, ret |-> FALSE, at |-> 271]

SetExpanded(cs, lineDoc, isExpanded) ==
    IF OneToOne(cs) /\ isExpanded
    THEN [cs |-> cs, ret |-> FALSE, at |-> 286]
    ELSE LET data == EnsureData(cs)
         IN  IF isExpanded # (ValueAt(data.expanded[1], lineDoc) = 1)
             THEN [cs |-> [data EXCEPT
                              !.expanded =
                                  <<SetValueAt(@[1], lineDoc, IF isExpanded THEN 1 ELSE 0)>>],
                   ret |-> TRUE, at |-> 292]
             ELSE [cs |-> data, ret |-> FALSE, at |-> 295]

\* SetHeight storing the height of a visible line only.
SetHeightOfVisibleOnly(cs, lineDoc, height) ==
    IF OneToOne(cs) /\ height = 1
    THEN [cs |-> cs, ret |-> FALSE, at |-> 329]
    ELSE IF lineDoc < LinesInDoc(cs)
    THEN LET data == EnsureData(cs)
         IN  IF GetHeight(data, lineDoc) # height
             THEN IF GetVisible(data, lineDoc)
                  THEN [cs |-> [data EXCEPT
                                   !.displayLines =
                                       <<InsertText(@[1], lineDoc,
                                                    height - GetHeight(data, lineDoc))>>,
                                   !.heights = <<SetValueAt(@[1], lineDoc, height)>>],
                        ret |-> TRUE, at |-> 338]
                  ELSE [cs |-> data, ret |-> TRUE, at |-> 338]
             ELSE [cs |-> data, ret |-> FALSE, at |-> 341]
    ELSE [cs |-> cs, ret |-> FALSE, at |-> 344]

\* Defined for lineDoc >= 0: a negative lineDoc passes the range test and
\* indexes heights before its first element (see CallSetHeight).
SetHeight(cs, lineDoc, height) ==
    IF OneToOne(cs) /\ height = 1
    THEN [cs |-> cs, ret |-> FALSE, at |-> 329]
    ELSE IF lineDoc < LinesInDoc(cs)
    THEN LET data == EnsureData(cs)
         IN  IF GetHeight(data, lineDoc) # height
             THEN LET moved ==
                          IF GetVisible(data, lineDoc)
                          THEN InsertText(data.displayLines[1], lineDoc,
                                          height - GetHeight(data, lineDoc))
                          ELSE data.displayLines[1]
                  IN  [cs |-> [data EXCEPT
                                  !.displayLines = <<moved>>,
                                  !.heights = <<SetValueAt(@[1], lineDoc, height)>>],
                       ret |-> TRUE, at |-> 338]
             ELSE [cs |-> data, ret |-> FALSE, at |-> 341]
    ELSE [cs |-> cs, ret |-> FALSE, at |-> 344]

\* ContractedNext returning the end of the run without comparing it with
\* LinesInDoc().
ContractedNextUnchecked(cs, lineDocStart) ==
    IF OneToOne(cs)
    THEN -1
    ELSE IF ValueAt(cs.expanded[1], lineDocStart) = 0
    THEN lineDocStart
    ELSE EndRun(cs.expanded[1], lineDocStart)

ContractedNext(cs, lineDocStart) ==
    IF OneToOne(cs)
    THEN -1
    ELSE IF ValueAt(cs.expanded[1], lineDocStart) = 0
    THEN lineDocStart
    ELSE LET lineDocNextChange == EndRun(cs.expanded[1], lineDocStart)
         IN  IF lineDocNextChange < LinesInDoc(cs)
             THEN lineDocNextChange
             ELSE -1

\* ShowAll that does not put the line count back after Clear().
ShowAllForgetsLines(cs) == Clear(cs)

ShowAll(cs) == [Clear(cs) EXCEPT !.linesInDocument = LinesInDoc(cs)]

-----------------------------------------------------------------------------
(* The object after construction, and one action per public method.  The   *)
(* arguments are drawn from small sets; the sets of heights, expansion     *)
(* flags and texts are parameters, so that a specification can keep an     *)
(* attribute at its default and spend its states on the others.            *)

\* Line arguments: every line of the document, one before and one after.
LineArgs(cs) == -1..LinesInDoc(cs)

Init ==
    /\ visible = ContractionState.visible
    /\ expanded = ContractionState.expanded
    /\ heights = ContractionState.heights
    /\ foldDisplayTexts = ContractionState.foldDisplayTexts
    /\ displayLines = ContractionState.displayLines
    /\ linesInDocument = ContractionState.linesInDocument
    /\ op = "ContractionState"
    /\ ret = "void"
    /\ returnedAt = 92
    /\ undefinedBehaviour = FALSE

\* A method is called on an object that no call has left undefined.
Usable == ~undefinedBehaviour

\* The fields after a call that left the object in state cs.
Becomes(cs) ==
    /\ visible' = cs.visible
    /\ expanded' = cs.expanded
    /\ heights' = cs.heights
    /\ foldDisplayTexts' = cs.foldDisplayTexts
    /\ displayLines' = cs.displayLines
    /\ linesInDocument' = cs.linesInDocument

Called(name, result, line) ==
    /\ op' = name
    /\ ret' = result
    /\ returnedAt' = line
    /\ undefinedBehaviour' = FALSE

\* The document grows to at most MaxLines lines.
CallInsertLines ==
    \E lineDoc \in 0..LinesInDoc(This), lineCount \in 0..MaxCount :
        /\ Usable
        /\ LinesInDoc(This) + lineCount <= MaxLines
        /\ Becomes(InsertLines(This, lineDoc, lineCount))
        /\ Called("InsertLines", "void", 202)

\* The lines deleted exist, and the document keeps at least one line.
CallDeleteLines ==
    \E lineDoc \in 0..LinesInDoc(This), lineCount \in 0..MaxCount :
        /\ Usable
        /\ lineDoc + lineCount <= LinesInDoc(This)
        /\ LinesInDoc(This) - lineCount >= 1
        /\ Becomes(DeleteLines(This, lineDoc, lineCount))
        /\ Called("DeleteLines", "void", 209)

CallSetVisible ==
    \E lineDocStart \in LineArgs(This), lineDocEnd \in LineArgs(This),
       isVisible \in BOOLEAN :
        LET r == SetVisible(This, lineDocStart, lineDocEnd, isVisible)
        IN  Usable /\ Becomes(r.cs) /\ Called("SetVisible", r.ret, r.at)

\* lineDoc is in range wherever the method indexes expanded with it.
CallSetExpanded(flags) ==
    \E lineDoc \in LineArgs(This), isExpanded \in flags :
        /\ Usable
        /\ (OneToOne(This) /\ isExpanded) \/ lineDoc \in 0..(LinesInDoc(This) - 1)
        /\ LET r == SetExpanded(This, lineDoc, isExpanded)
           IN  Becomes(r.cs) /\ Called("SetExpanded", r.ret, r.at)

\* lineDoc is in range: the method indexes foldDisplayTexts with it.
CallSetFoldDisplayText(texts) ==
    \E lineDoc \in 0..(LinesInDoc(This) - 1), text \in texts :
        LET r == SetFoldDisplayText(This, lineDoc, text)
        IN  Usable /\ Becomes(r.cs) /\ Called("SetFoldDisplayText", r.ret, r.at)

\* A negative lineDoc passes the test lineDoc < LinesInDoc(): after
\* EnsureData() the method reads and writes heights and displayLines before
\* their first element, which no contract of theirs defines.  The value
\* returned is any, and the object is used no further.
CallSetHeight(values) ==
    \E lineDoc \in LineArgs(This), height \in values :
        \/ /\ Usable
           /\ lineDoc >= 0 \/ (OneToOne(This) /\ height = 1)
           /\ LET r == SetHeight(This, lineDoc, height)
              IN  Becomes(r.cs) /\ Called("SetHeight", r.ret, r.at)
        \/ /\ Usable
           /\ lineDoc < 0 /\ ~(OneToOne(This) /\ height = 1)
           /\ Becomes(EnsureData(This))
           /\ op' = "SetHeight"
           /\ ret' \in BOOLEAN
           /\ returnedAt' \in {338, 341}
           /\ undefinedBehaviour' = TRUE

CallShowAll ==
    /\ Usable
    /\ Becomes(ShowAll(This))
    /\ Called("ShowAll", "void", 352)

CallClear ==
    /\ Usable
    /\ Becomes(Clear(This))
    /\ Called("Clear", "void", 149)

\* Layout: every height; expansion flags and fold texts keep their defaults.
Next ==
    \/ CallInsertLines
    \/ CallDeleteLines
    \/ CallSetVisible
    \/ CallSetExpanded({TRUE})
    \/ CallSetFoldDisplayText({NullText})
    \/ CallSetHeight(HeightValues)
    \/ CallShowAll
    \/ CallClear

Spec == Init /\ [][Next]_vars

\* Fold state: every expansion flag and fold text; heights keep their default.
NextFold ==
    \/ CallInsertLines
    \/ CallDeleteLines
    \/ CallSetVisible
    \/ CallSetExpanded(BOOLEAN)
    \/ CallSetFoldDisplayText(Texts)
    \/ CallSetHeight({1})
    \/ CallShowAll
    \/ CallClear

SpecFold == Init /\ [][NextFold]_vars

\* Expansion: every expansion flag; heights and fold texts keep their defaults.
NextExpanded ==
    \/ CallInsertLines
    \/ CallDeleteLines
    \/ CallSetVisible
    \/ CallSetExpanded(BOOLEAN)
    \/ CallSetFoldDisplayText({NullText})
    \/ CallSetHeight({1})
    \/ CallShowAll
    \/ CallClear

SpecExpanded == Init /\ [][NextExpanded]_vars

-----------------------------------------------------------------------------
(* What a caller observes of the object.                                   *)

\* The document lines.
Lines(cs) == 0..(LinesInDoc(cs) - 1)

\* The display rows.
Rows(cs) == 0..(LinesDisplayed(cs) - 1)

\* The number of display rows a line takes: its height if visible, else 0.
Span(cs, d) == IF GetVisible(cs, d) THEN GetHeight(cs, d) ELSE 0

\* The rows taken by the lines before line d.
RECURSIVE SpansBefore(_, _)
SpansBefore(cs, d) ==
    IF d <= 0 THEN 0 ELSE SpansBefore(cs, d - 1) + Span(cs, d - 1)

\* The fold text of a line; none is stored in trivial mode.
FoldText(cs, d) == IF OneToOne(cs) THEN NullText ELSE GetFoldDisplayText(cs, d)

\* Every attribute of every line, and the two line counts.
Observed(cs) ==
    [linesInDoc |-> LinesInDoc(cs),
     linesDisplayed |-> LinesDisplayed(cs),
     visible |-> [d \in Lines(cs) |-> GetVisible(cs, d)],
     heights |-> [d \in Lines(cs) |-> GetHeight(cs, d)],
     expanded |-> [d \in Lines(cs) |-> GetExpanded(cs, d)],
     foldTexts |-> [d \in Lines(cs) |-> FoldText(cs, d)],
     displayFromDoc |-> [d \in 0..LinesInDoc(cs) |-> DisplayFromDoc(cs, d)]]

\* A range SetVisible accepts.
ValidRange(cs, start, end) == 0 <= start /\ start <= end /\ end < LinesInDoc(cs)

\* Rows below, in and beyond the display.
BeyondRows(cs) == (LinesDisplayed(cs) + 1)..(LinesDisplayed(cs) + 2)

-----------------------------------------------------------------------------
(* C1..C10                                                                 *)

\* C1: after any sequence of public operations with in-range arguments,
\* every document line d takes DisplayFromDoc(d+1) - DisplayFromDoc(d) =
\* GetHeight(d) rows if visible and 0 if hidden, and LinesDisplayed() is the
\* sum of the heights of the visible lines.
C1_SpanIsHeightIfVisible ==
    ~undefinedBehaviour =>
        /\ \A d \in Lines(This) :
               DisplayFromDoc(This, d + 1) - DisplayFromDoc(This, d)
                   = (IF GetVisible(This, d) THEN GetHeight(This, d) ELSE 0)
        /\ LinesDisplayed(This) = SpansBefore(This, LinesInDoc(This))

\* A line was deleted from a three-line document holding a hidden line
\* between a two-row line and a one-row line.
C1_Witness ==
    /\ op = "DeleteLines"
    /\ ~OneToOne(This)
    /\ LinesInDoc(This) = 2
    /\ \E d \in Lines(This) : ~GetVisible(This, d) /\ GetHeight(This, d) = 2
    /\ \E d \in Lines(This) : GetVisible(This, d) /\ GetHeight(This, d) = 2

\* C2: for every display row v below LinesDisplayed(), the document line
\* DocFromDisplay(v) is visible, also when document line 0 is hidden.
C2_RowsMapToVisibleLines ==
    ~undefinedBehaviour =>
        \A v \in Rows(This) : GetVisible(This, DocFromDisplay(This, v))

\* C3: DocFromDisplay(DisplayFromDoc(d)) is the first document line whose
\* rows contain the row DisplayFromDoc(d): d itself when d is visible with
\* height >= 1, and a line after d that GetVisible reports visible when d is
\* hidden.
C3_RoundTrip ==
    ~undefinedBehaviour =>
        \A d \in Lines(This) :
            LET back == DocFromDisplay(This, DisplayFromDoc(This, d))
            IN  /\ (GetVisible(This, d) /\ GetHeight(This, d) >= 1) => back = d
                /\ ~GetVisible(This, d) => (back > d /\ GetVisible(This, back))

\* C4: in trivial mode LinesInDoc() = LinesDisplayed(), DisplayFromDoc(d) = d
\* for every document line d and DocFromDisplay(v) = v for every display row v.
C4_TrivialIsIdentity ==
    OneToOne(This) =>
        /\ LinesInDoc(This) = LinesDisplayed(This)
        /\ \A d \in Lines(This) : DisplayFromDoc(This, d) = d
        /\ \A v \in Rows(This) : DocFromDisplay(This, v) = v

\* Lines were deleted from a trivial-mode document that still has two.
C4_Witness ==
    /\ op = "DeleteLines"
    /\ OneToOne(This)
    /\ LinesInDoc(This) = 2

\* C5: in trivial mode SetVisible(start, end, true), SetExpanded(line, true)
\* and SetHeight(line, 1) return false for any arguments, allocate nothing
\* and leave LinesInDoc() unchanged.
C5_TrivialShortCircuit ==
    OneToOne(This) =>
        /\ \A start \in LineArgs(This), end \in LineArgs(This) :
               LET r == SetVisible(This, start, end, TRUE)
               IN  ~r.ret /\ OneToOne(r.cs) /\ LinesInDoc(r.cs) = LinesInDoc(This)
        /\ \A line \in LineArgs(This) :
               LET r == SetExpanded(This, line, TRUE)
               IN  ~r.ret /\ OneToOne(r.cs) /\ LinesInDoc(r.cs) = LinesInDoc(This)
        /\ \A line \in LineArgs(This) :
               LET r == SetHeight(This, line, 1)
               IN  ~r.ret /\ OneToOne(r.cs) /\ LinesInDoc(r.cs) = LinesInDoc(This)

\* SetVisible(.., true) has returned by the trivial-mode short cut on a
\* document of three lines.
C5_Witness ==
    /\ op = "SetVisible"
    /\ returnedAt = 223
    /\ OneToOne(This)
    /\ LinesInDoc(This) = 3

\* C6: SetVisible(start, end, isVisible) with a range that violates
\* 0 <= start <= end < LinesInDoc() returns false and changes no line's
\* visibility, height, expansion or fold text, nor LinesInDoc() or
\* LinesDisplayed(), in both modes and for both values of isVisible.
C6_InvalidRangeIsNoOp ==
    ~undefinedBehaviour =>
        LET seen == Observed(This)
        IN  \A start \in LineArgs(This), end \in LineArgs(This), isVisible \in BOOLEAN :
                ~ValidRange(This, start, end) =>
                    LET r == SetVisible(This, start, end, isVisible)
                    IN  ~r.ret /\ (r.cs = This \/ Observed(r.cs) = seen)

\* SetVisible has rejected its range on a projected document that has a
\* hidden line and a line two rows tall.
C6_Witness ==
    /\ op = "SetVisible"
    /\ returnedAt = 238
    /\ ~ret
    /\ ~OneToOne(This)
    /\ HiddenLines(This)
    /\ \E d \in Lines(This) : GetVisible(This, d) /\ GetHeight(This, d) = 2

\* C7: SetHeight(docLine, height) with docLine < 0 or docLine >= LinesInDoc()
\* returns false and leaves LinesDisplayed(), the heights and the mapping
\* unchanged, for any height and in both modes.
C7_OutOfRangeHeightIsNoOp ==
    /\ ~undefinedBehaviour =>
           \A height \in HeightValues :
               LET r == SetHeight(This, LinesInDoc(This), height)
               IN  ~r.ret /\ Observed(r.cs) = Observed(This)
    /\ (op = "SetHeight" /\ undefinedBehaviour) => ~ret

\* C8: DocFromDisplay(displayLine) returns document line 0 for every
\* displayLine <= 0, in trivial and in projected mode.
C8_RowsUpToZeroMapToLineZero ==
    \A displayLine \in -2..0 : DocFromDisplay(This, displayLine) = 0

\* C9: DocFromDisplay(displayLine) for displayLine beyond LinesDisplayed()
\* returns the document line d < LinesInDoc() that owns the last display
\* row: DisplayFromDoc(d) <= LinesDisplayed() - 1 < DisplayFromDoc(d + 1).
C9_RowsBeyondMapToLastRowOwner ==
    (~undefinedBehaviour /\ LinesDisplayed(This) >= 1) =>
        \A displayLine \in BeyondRows(This) :
            LET d == DocFromDisplay(This, displayLine)
            IN  /\ d \in Lines(This)
                /\ DisplayFromDoc(This, d) <= LinesDisplayed(This) - 1
                /\ LinesDisplayed(This) - 1 < DisplayFromDoc(This, d + 1)

\* C10: DisplayFromDoc(docLine) returns LinesDisplayed() for every docLine >=
\* LinesInDoc() in both modes, and in projected mode, for a document line,
\* the sum of the rows (height if visible, else 0) of the lines before it.
C10_DisplayFromDocIsRowsBefore ==
    ~undefinedBehaviour =>
        /\ \A docLine \in LinesInDoc(This)..(LinesInDoc(This) + 3) :
               DisplayFromDoc(This, docLine) = LinesDisplayed(This)
        /\ ~OneToOne(This) =>
               \A docLine \in Lines(This) :
                   DisplayFromDoc(This, docLine) = SpansBefore(This, docLine)

\* A line was inserted into a projected document before a hidden line that
\* follows a line two rows tall.
C10_Witness ==
    /\ op = "InsertLines"
    /\ ~OneToOne(This)
    /\ LinesInDoc(This) = 3
    /\ GetHeight(This, 0) = 2 /\ GetVisible(This, 0)
    /\ GetVisible(This, 1) /\ GetHeight(This, 1) = 1
    /\ ~GetVisible(This, 2)

-----------------------------------------------------------------------------
\* C11: from any state and any 0 <= p <= LinesInDoc(), k >= 0, InsertLines(p, k)
\* followed by DeleteLines(p, k) restores LinesInDoc(), LinesDisplayed() and
\* the visibility, expansion, height and fold label of every line, in
\* trivial and in projected mode.
C11_InsertThenDeleteRestores ==
    ~undefinedBehaviour =>
        LET seen == Observed(This)
        IN  \A p \in 0..LinesInDoc(This), k \in 0..MaxCount :
                LET inserted == InsertLines(This, p, k)
                    restored == DeleteLines(inserted, p, k)
                IN  /\ LinesInDoc(inserted) = LinesInDoc(This) + k
                    /\ OneToOne(restored) = OneToOne(This)
                    /\ (restored = This \/ Observed(restored) = seen)

\* Lines were deleted from a projected document that keeps a hidden line
\* and a line two rows tall.
C11_Witness ==
    /\ op = "DeleteLines"
    /\ ~OneToOne(This)
    /\ LinesInDoc(This) = 2
    /\ ~GetVisible(This, 0) /\ GetHeight(This, 0) = 2
    /\ GetVisible(This, 1) /\ GetHeight(This, 1) = 0

\* C12: ShowAll() keeps LinesInDoc() and returns to trivial mode: afterwards
\* LinesDisplayed() = LinesInDoc(), every line is visible, expanded, of
\* height 1 and without fold text, HiddenLines() is false, and a second
\* ShowAll() changes nothing.
C12_ShowAllResets ==
    ~undefinedBehaviour =>
        LET shown == ShowAll(This)
        IN  /\ OneToOne(shown)
            /\ LinesInDoc(shown) = LinesInDoc(This)
            /\ LinesDisplayed(shown) = LinesInDoc(shown)
            /\ ~HiddenLines(shown)
            /\ \A d \in Lines(shown) :
                   /\ GetVisible(shown, d)
                   /\ GetExpanded(shown, d)
                   /\ GetHeight(shown, d) = 1
                   /\ FoldText(shown, d) = NullText
                   /\ DisplayFromDoc(shown, d) = d
                   /\ DocFromDisplay(shown, d) = d
            /\ ShowAll(shown) = shown
            /\ (op = "ShowAll" => This = shown)

\* ShowAll() has returned on a document of three lines.
C12_Witness ==
    /\ op = "ShowAll"
    /\ OneToOne(This)
    /\ LinesInDoc(This) = 3
    /\ LinesDisplayed(This) = 3

\* C13 as stated: SetVisible on a valid range returns true exactly when the
\* visibility flag of at least one line of the range changed.
C13_TrueIffSomeFlagChanged ==
    ~undefinedBehaviour =>
        \A lineDocStart \in Lines(This), lineDocEnd \in Lines(This), isVisible \in BOOLEAN :
            lineDocStart <= lineDocEnd =>
                SetVisible(This, lineDocStart, lineDocEnd, isVisible).ret
                    = (\E d \in lineDocStart..lineDocEnd : GetVisible(This, d) # isVisible)

\* C13 amended: SetVisible on a valid range returns true exactly when the
\* call changed LinesDisplayed(); it returns false when no flag changed, and
\* also when the heights of the lines whose flag changed sum to 0.
C13_TrueIffRowsChanged ==
    ~undefinedBehaviour =>
        \A lineDocStart \in Lines(This), lineDocEnd \in Lines(This), isVisible \in BOOLEAN :
            lineDocStart <= lineDocEnd =>
                LET r == SetVisible(This, lineDocStart, lineDocEnd, isVisible)
                    changed == {d \in lineDocStart..lineDocEnd : GetVisible(This, d) # isVisible}
                IN  /\ r.ret = (LinesDisplayed(r.cs) # LinesDisplayed(This))
                    /\ changed = {} => ~r.ret
                    /\ (\A d \in changed : GetHeight(This, d) = 0) => ~r.ret
                    /\ \A d \in lineDocStart..lineDocEnd : GetVisible(r.cs, d) = isVisible

\* SetVisible has returned false on a valid range that holds a hidden line
\* of height 0, the only hidden line of the document.
C13_Witness ==
    /\ op = "SetVisible"
    /\ returnedAt = 241
    /\ ret = FALSE
    /\ LinesInDoc(This) = 2
    /\ ~GetVisible(This, 0) /\ GetHeight(This, 0) = 0
    /\ GetVisible(This, 1) /\ GetHeight(This, 1) = 2

\* C14: HiddenLines() is true if and only if some document line d has
\* GetVisible(d) false; it is false in trivial mode, and false again in
\* projected mode once every hidden line is shown again.
C14_HiddenLinesIffSomeLineHidden ==
    ~undefinedBehaviour =>
        /\ HiddenLines(This) <=> \E d \in Lines(This) : ~GetVisible(This, d)
        /\ OneToOne(This) => ~HiddenLines(This)

\* SetVisible has changed rows of a projected document and left no line hidden.
C14_Witness ==
    /\ op = "SetVisible"
    /\ ret = TRUE
    /\ ~OneToOne(This)
    /\ LinesInDoc(This) = 3
    /\ ~HiddenLines(This)

\* Every line has the attributes a new line has.
AllDefault(cs) ==
    \A d \in Lines(cs) :
        /\ GetVisible(cs, d)
        /\ GetExpanded(cs, d)
        /\ GetHeight(cs, d) = 1
        /\ FoldText(cs, d) = NullText

\* The outcomes of the calls that set an attribute of cs.
AttributeCalls(cs) ==
    {SetVisible(cs, start, end, isVisible) :
         start \in LineArgs(cs), end \in LineArgs(cs), isVisible \in BOOLEAN}
    \cup {SetExpanded(cs, d, isExpanded) : d \in Lines(cs), isExpanded \in BOOLEAN}
    \cup {SetHeight(cs, d, height) : d \in 0..LinesInDoc(cs), height \in HeightValues}
    \cup {SetFoldDisplayText(cs, d, text) : d \in Lines(cs), text \in Texts}

\* InsertLines and DeleteLines keep the mode of cs.
StructureKeepsMode(cs) ==
    /\ \A p \in 0..LinesInDoc(cs), k \in 0..MaxCount :
           OneToOne(InsertLines(cs, p, k)) = OneToOne(cs)
    /\ \A p \in Lines(cs), k \in 0..MaxCount :
           p + k <= LinesInDoc(cs) => OneToOne(DeleteLines(cs, p, k)) = OneToOne(cs)

\* C15: for every line d, GetFoldDisplayTextShown(d) is true if and only if
\* d is not expanded and has a non-empty stored fold label; SetExpanded(d,
\* true) makes it false and keeps the label, SetExpanded(d, false) makes it
\* true when a non-empty label is stored.
C15_ShownIffCollapsedWithNonEmptyLabel ==
    ~undefinedBehaviour =>
        \A d \in Lines(This) :
            LET grown == SetExpanded(This, d, TRUE).cs
                folded == SetExpanded(This, d, FALSE).cs
            IN  /\ GetFoldDisplayTextShown(This, d)
                       <=> (~GetExpanded(This, d) /\ FoldText(This, d) \notin {NullText, ""})
                /\ ~GetFoldDisplayTextShown(grown, d)
                /\ FoldText(grown, d) = FoldText(This, d)
                /\ FoldText(folded, d) \notin {NullText, ""}
                       => GetFoldDisplayTextShown(folded, d)

\* C16: SetHeight(d, h) on a document line d changes LinesDisplayed() by h
\* minus the previous height if d is visible, and setting the previous
\* height back restores the count; if d is hidden LinesDisplayed() stays,
\* GetHeight(d) becomes h and SetVisible(d, d, true) then adds h rows.  It
\* returns true iff h differs from the previous height.
C16_SetHeightMovesRowsOfVisibleLine ==
    ~undefinedBehaviour =>
        \A d \in Lines(This), height \in HeightValues :
            LET previous == GetHeight(This, d)
                r == SetHeight(This, d, height)
            IN  /\ r.ret = (height # previous)
                /\ GetHeight(r.cs, d) = height
                /\ IF GetVisible(This, d)
                   THEN /\ LinesDisplayed(r.cs) = LinesDisplayed(This) + height - previous
                        /\ LinesDisplayed(SetHeight(r.cs, d, previous).cs)
                               = LinesDisplayed(This)
                   ELSE /\ LinesDisplayed(r.cs) = LinesDisplayed(This)
                        /\ LinesDisplayed(SetVisible(r.cs, d, d, TRUE).cs)
                               = LinesDisplayed(r.cs) + height

\* SetHeight has changed a height and the document holds a hidden line two
\* rows tall next to visible lines of one row.
C16_Witness ==
    /\ op = "SetHeight"
    /\ returnedAt = 338
    /\ ret = TRUE
    /\ LinesInDoc(This) = 3
    /\ ~GetVisible(This, 1) /\ GetHeight(This, 1) = 2
    /\ GetVisible(This, 0) /\ GetHeight(This, 0) = 1
    /\ GetVisible(This, 2) /\ GetHeight(This, 2) = 1
    /\ LinesDisplayed(This) = 2

\* C17: EnsureData on a trivial object of N lines yields projected
\* structures with LinesInDoc() = LinesDisplayed() = N and every line
\* visible, expanded, of height 1 and without label; a projected object
\* whose attributes are all default answers LinesInDoc, LinesDisplayed,
\* DisplayFromDoc(0..N) and DocFromDisplay(0..N-1) as the trivial object of
\* N lines does; EnsureData on a projected object changes nothing.
C17_MaterializationIsNeutral ==
    ~undefinedBehaviour =>
        LET data == EnsureData(This)
            trivial == [ContractionState EXCEPT !.linesInDocument = LinesInDoc(This)]
        IN  /\ ~OneToOne(data)
            /\ EnsureData(data) = data
            /\ ~OneToOne(This) => data = This
            /\ OneToOne(This) =>
                   /\ trivial = This
                   /\ LinesInDoc(data) = LinesInDoc(This)
                   /\ LinesDisplayed(data) = LinesInDoc(This)
                   /\ AllDefault(data)
            /\ AllDefault(data) =>
                   /\ Observed(data) = Observed(trivial)
                   /\ \A v \in Lines(trivial) :
                          DocFromDisplay(data, v) = DocFromDisplay(trivial, v)
                   /\ HiddenLines(data) = HiddenLines(trivial)

\* A call that sets no attribute has made a document of three lines
\* projected: every line has its default attributes.
C17_Witness ==
    /\ op = "SetFoldDisplayText"
    /\ returnedAt = 268
    /\ ~OneToOne(This)
    /\ LinesInDoc(This) = 3
    /\ AllDefault(This)

\* C18 as stated: the object leaves trivial mode only in a call that sets
\* some line's visibility, expansion, height or fold label away from its
\* default; a call that returns false never materializes; InsertLines and
\* DeleteLines never change the mode; a projected object stays projected
\* until ShowAll or Clear.
C18_LeavesTrivialOnlyToSetAttribute ==
    ~undefinedBehaviour =>
        /\ StructureKeepsMode(This)
        /\ \A r \in AttributeCalls(This) :
               /\ ~OneToOne(This) => ~OneToOne(r.cs)
               /\ (OneToOne(This) /\ ~OneToOne(r.cs)) => (r.ret /\ ~AllDefault(r.cs))

\* C18 amended: a trivial object becomes projected exactly in SetVisible(..,
\* false), SetExpanded(.., false), SetHeight(line, height) with height # 1
\* and line < LinesInDoc(), and SetFoldDisplayText, whatever the call then
\* changes; the other calls leave it trivial, InsertLines and DeleteLines
\* never change the mode, and a projected object stays projected until
\* ShowAll or Clear.
C18_LeavesTrivialUnlessShortCut ==
    ~undefinedBehaviour =>
        /\ StructureKeepsMode(This)
        /\ \A r \in AttributeCalls(This) : ~OneToOne(This) => ~OneToOne(r.cs)
        /\ OneToOne(ShowAll(This)) /\ OneToOne(Clear(This))
        /\ OneToOne(This) =>
               /\ \A start \in LineArgs(This), end \in LineArgs(This), isVisible \in BOOLEAN :
                      OneToOne(SetVisible(This, start, end, isVisible).cs) = isVisible
               /\ \A d \in Lines(This), isExpanded \in BOOLEAN :
                      OneToOne(SetExpanded(This, d, isExpanded).cs) = isExpanded
               /\ \A d \in 0..LinesInDoc(This), height \in HeightValues :
                      OneToOne(SetHeight(This, d, height).cs)
                          = (height = 1 \/ d >= LinesInDoc(This))
               /\ \A d \in Lines(This), text \in Texts :
                      ~OneToOne(SetFoldDisplayText(This, d, text).cs)
        /\ (op = "SetVisible" /\ returnedAt # 223) => ~OneToOne(This)
        /\ (op = "SetExpanded" /\ returnedAt # 286) => ~OneToOne(This)
        /\ (op = "SetHeight" /\ returnedAt \in {338, 341}) => ~OneToOne(This)
        /\ op = "SetFoldDisplayText" => ~OneToOne(This)
        /\ op \in {"ShowAll", "Clear"} => OneToOne(This)

\* SetVisible has rejected its range and returned false, and the document
\* is projected with every line at its default attributes.
C18_Witness ==
    /\ op = "SetVisible"
    /\ returnedAt = 238
    /\ ret = FALSE
    /\ ~OneToOne(This)
    /\ LinesInDoc(This) = 3
    /\ AllDefault(This)

\* C19: in projected mode InsertLines(at, count) with 0 <= at <= LinesInDoc()
\* makes lines at..at+count-1 visible, expanded, of height 1 and without
\* label, raises LinesInDoc() and LinesDisplayed() by count and keeps the
\* visibility, expansion, height and label of every line that existed
\* (line i >= at is found at i + count).
C19_InsertedLinesAreDefault ==
    (~undefinedBehaviour /\ ~OneToOne(This)) =>
        LET before == Observed(This)
        IN  \A at \in 0..LinesInDoc(This), count \in 0..MaxCount :
                LET r == InsertLines(This, at, count)
                    after == Observed(r)
                IN  /\ ~OneToOne(r)
                    /\ after.linesInDoc = before.linesInDoc + count
                    /\ after.linesDisplayed = before.linesDisplayed + count
                    /\ \A d \in at..(at + count - 1) :
                           /\ after.visible[d]
                           /\ after.expanded[d]
                           /\ after.heights[d] = 1
                           /\ after.foldTexts[d] = NullText
                           /\ after.displayFromDoc[d + 1] - after.displayFromDoc[d] = 1
                    /\ \A i \in Lines(This) :
                           LET j == IF i >= at THEN i + count ELSE i
                           IN  /\ after.visible[j] = before.visible[i]
                               /\ after.expanded[j] = before.expanded[i]
                               /\ after.heights[j] = before.heights[i]
                               /\ after.foldTexts[j] = before.foldTexts[i]
                               /\ after.displayFromDoc[j + 1] - after.displayFromDoc[j]
                                      = before.displayFromDoc[i + 1] - before.displayFromDoc[i]

\* A line was inserted into a projected document between a hidden line two
\* rows tall and a hidden line of height 0.
C19_Witness ==
    /\ op = "InsertLines"
    /\ ~OneToOne(This)
    /\ LinesInDoc(This) = 3
    /\ ~GetVisible(This, 0) /\ GetHeight(This, 0) = 2
    /\ GetVisible(This, 1) /\ GetHeight(This, 1) = 1
    /\ ~GetVisible(This, 2) /\ GetHeight(This, 2) = 0
    /\ LinesDisplayed(This) = 1

\* C20: ContractedNext(start) for 0 <= start < LinesInDoc() returns the
\* smallest line l >= start whose expansion flag is false, -1 if there is
\* none below LinesInDoc(), and -1 in trivial mode.
C20_ContractedNextIsFirstContracted ==
    ~undefinedBehaviour =>
        \A start \in Lines(This) :
            LET contracted == {l \in Lines(This) : l >= start /\ ~GetExpanded(This, l)}
                next == ContractedNext(This, start)
            IN  /\ OneToOne(This) => next = -1
                /\ contracted = {} => next = -1
                /\ contracted # {} =>
                       /\ next \in contracted
                       /\ \A l \in contracted : next <= l

\* SetExpanded has changed a flag: the last of three lines is contracted,
\* the lines before it are expanded, and ContractedNext(0) finds it.
C20_Witness ==
    /\ op = "SetExpanded"
    /\ ret = TRUE
    /\ LinesInDoc(This) = 3
    /\ GetExpanded(This, 0) /\ GetExpanded(This, 1) /\ ~GetExpanded(This, 2)
    /\ ContractedNext(This, 0) = 2
    /\ ContractedNext(This, 1) = 2

=============================================================================
